---------------------------- MODULE Spec2Model ----------------------------
(***************************************************************************)
(* Model of the direct-printing service (src/src/api.rs): the four HTTP    *)
(* handlers of Api and the negotiation/dispatch function print_file.       *)
(*                                                                         *)
(* Strings that matter for matching (printer names, page-size display      *)
(* names) are sequences of characters, so that str::replace is computed    *)
(* and not assumed.  The two non-ASCII characters of the source are        *)
(* written "MI" (U+7C73) and "HAO" (U+6BEB).                               *)
(*                                                                         *)
(* Calls into winprint, tempfile and the OS return Result in the source;   *)
(* whether such a call fails is outside the program's control and is a     *)
(* nondeterministic choice in every action that makes one.                 *)
(***************************************************************************)
EXTENDS Integers, Sequences, FiniteSets, TLC

VARIABLES
    devices,    \* the OS spooler's printers, in enumeration order (raw names)
    caps,       \* caps[i]: what the driver of devices[i] currently reports
    gen,        \* number of driver capability changes so far
    files,      \* names of the temporary print files that exist on disk
    pc,         \* pc[c]: where client c's request is
    req,        \* req[c]: the request being served
    printer,    \* print_file's `printer`: index into the enumeration, 0 = none
    cap,        \* print_file's `cap`: the capability snapshot it fetched
    builder,    \* print_file's `builder`
    tmp,        \* print_file's `file`: the NamedTempFile it holds, 0 = none
    called,     \* the external calls print_file has made in this request,
                \* each with whether it succeeded
    job,        \* what this request submitted to the OS print pipeline
    result,     \* print_file's return value
    resp        \* the HTTP answer

vars == <<devices, caps, gen, files, pc, req, printer, cap, builder, tmp,
          called, job, result, resp>>

envVars == <<devices, caps, gen>>
localVars == <<printer, cap, builder, tmp, called, job, result>>

--------------------------------------------------------------------------
(* Bounds of the model *)

\* driver capability changes (media swap, driver update) in one behaviour
MaxChanges == 1
\* size of the pool of names NamedTempFile draws from
NTmpNames == 3

Clients == {"c1", "c2"}
\* the one client of the sequential specification
Clients1 == {"c1"}
TmpNames == 1..NTmpNames

--------------------------------------------------------------------------
(* Option<T> *)

None == <<>>
Some(x) == <<x>>
IsSome(o) == o # <<>>
Unwrap(o) == o[1]

Range(s) == {s[i] : i \in 1..Len(s)}

--------------------------------------------------------------------------
(* Strings *)

\* the pattern of s.replace(..) at api.rs:236 and api.rs:255: "&#xEB;" then U+7C73
Garbled == <<"&", "#", "x", "E", "B", ";", "MI">>
\* its replacement: U+6BEB U+7C73
Fixed == <<"HAO", "MI">>

\* str::replace: every non-overlapping match, left to right
RECURSIVE Replace(_, _, _)
Replace(s, from, to) ==
    IF Len(s) < Len(from) THEN s
    ELSE IF SubSeq(s, 1, Len(from)) = from
         THEN to \o Replace(SubSeq(s, Len(from) + 1, Len(s)), from, to)
         ELSE <<s[1]>> \o Replace(Tail(s), from, to)

Sanitize(s) == Replace(s, Garbled, Fixed)

NameHP == <<"H", "P">>
NameGPGarbled == <<"G", "P", " ", "4", "0">> \o Garbled
NameGPFixed == <<"G", "P", " ", "4", "0">> \o Fixed
NameNone == <<"N", "X">>

NameA4 == <<"A", "4">>
NameLabelGarbled == <<"4", "0">> \o Garbled
NameLabelFixed == <<"4", "0">> \o Fixed
NameB5 == <<"B", "5">>

--------------------------------------------------------------------------
(* Orientation and its two conversions, api.rs:61-90 *)

Orientations == {"portrait", "landscape", "reverse_portrait", "reverse_landscape"}
Predefined == {"Portrait", "Landscape", "ReversePortrait", "ReverseLandscape"}

OrientationFromPredefined(p) ==
    CASE p = "Portrait" -> "portrait"
      [] p = "Landscape" -> "landscape"
      [] p = "ReversePortrait" -> "reverse_portrait"
      [] p = "ReverseLandscape" -> "reverse_landscape"

PredefinedFromOrientation(o) ==
    CASE o = "portrait" -> "Portrait"
      [] o = "landscape" -> "Landscape"
      [] o = "reverse_portrait" -> "ReversePortrait"
      [] o = "reverse_landscape" -> "ReverseLandscape"

--------------------------------------------------------------------------
(* The drivers: what PrintCapabilities::fetch can return.  An option is    *)
(* the driver's own object: besides what the API reads (as_predefined_name,*)
(* display_name, size) it carries driver-private data, `priv`.             *)

OriOpt(pre, priv) == [pre |-> pre, priv |-> priv]
PageOpt(name, w, h, priv) == [name |-> name, w |-> w, h |-> h, priv |-> priv]

\* a laser printer: the spec's "HP LaserJet" example
CapLaser ==
    [max_copies |-> Some(99),
     oris |-> <<OriOpt(Some("Portrait"), 11), OriOpt(Some("Landscape"), 12)>>,
     pages |-> <<PageOpt(Some(NameA4), 210, 297, 13)>>]

\* a label printer whose driver reports the garbled unit in a page-size
\* name (api.rs:235), a page size without a name, and a driver-private
\* orientation option
CapLabel ==
    [max_copies |-> None,
     oris |-> <<OriOpt(None, 21), OriOpt(Some("Portrait"), 22),
                OriOpt(Some("ReverseLandscape"), 23)>>,
     pages |-> <<PageOpt(Some(NameLabelGarbled), 40, 30, 24),
                 PageOpt(None, 210, 297, 25),
                 PageOpt(Some(NameA4), 210, 297, 26)>>]

\* a driver that reports no options at all
CapBare == [max_copies |-> None, oris |-> <<>>, pages |-> <<>>]

CapPool == {CapLaser, CapLabel, CapBare}

DeviceNames == {NameHP, NameGPGarbled, NameGPFixed}

\* the enumerations the spooler can hold: names are unique within one
DeviceLists ==
    {<<>>, <<NameHP>>, <<NameGPGarbled>>, <<NameHP, NameGPGarbled>>,
     <<NameGPGarbled, NameGPFixed>>, <<NameGPFixed, NameHP>>}

InitialCaps(name) == IF name = NameHP THEN CapLaser ELSE CapLabel


--------------------------------------------------------------------------
(* Requests *)

PageSize(name, w, h) == [name |-> name, width |-> w, height |-> h]

\* PageSize values a client sends: without a name (the listed sizes, one
\* micrometer off in either dimension, width and height swapped), and
\* with a name
PageSizeInputs ==
    {PageSize(None, d[1], d[2]) :
        d \in {<<210, 297>>, <<211, 297>>, <<210, 298>>, <<297, 210>>, <<40, 30>>}}
    \cup {PageSize(Some(n), d[1], d[2]) :
            n \in {NameA4, NameLabelGarbled, NameLabelFixed, NameB5},
            d \in {<<210, 297>>, <<40, 30>>}}

PrintSettings(p, cp, ori, ps) ==
    [printer |-> p, copies |-> cp, orientation |-> ori, page_size |-> ps]

RequestPrinterNames == DeviceNames \cup {NameNone}

\* the settings of the PrintPayloads of the sequential specification
Payloads ==
    {PrintSettings(p, cp, ori, ps) :
        p \in RequestPrinterNames,
        cp \in {None, Some(2)},
        ori \in {None} \cup {Some(o) : o \in Orientations},
        ps \in {None} \cup {Some(x) : x \in PageSizeInputs}}

\* the settings of the PrintPayloads of the concurrent specification
ConcPayloads ==
    {PrintSettings(p, None, ori, None) :
        p \in {NameHP, NameNone}, ori \in {None, Some("reverse_portrait")}}

\* what the config directory holds when GET /settings reads it
FileStates == {"nodir", "absent", "unreadable", "malformed", "valid"}

\* the PrintSettings a valid default.json parses to
StoredSettings == PrintSettings(NameHP, Some(1), Some("portrait"), None)

NoReq == [kind |-> "none"]

--------------------------------------------------------------------------
(* Result<T, E> and the response envelope, api.rs:37-56 *)

Ok(v) == [ok |-> TRUE, val |-> v]
Err(e) == [ok |-> FALSE, err |-> e]

ResponseOk(data) == [code |-> 0, msg |-> None, data |-> Some(data)]
ResponseErr(msg) == [code |-> 1, msg |-> Some(msg), data |-> None]

\* Ok(Json(..)) is HTTP 200 with the envelope; Err(InternalServerError(e))
\* is HTTP 500 without one
Http200(body) == [status |-> 200, body |-> Some(body)]
Http500 == [status |-> 500, body |-> None]
NoResp == [status |-> 0, body |-> None]

--------------------------------------------------------------------------
(* The OS and the drivers as the handlers see them *)

\* PrinterDevice::all(): the enumeration, or an error
PrinterDeviceAll(ok) == IF ok THEN Ok(devices) ELSE Err("PrinterDevice::all failed")

UnwrapOrDefault(r) == IF r.ok THEN r.val ELSE <<>>

\* Iterator::find: of the indices whose element satisfies the predicate,
\* the first, 0 when there is none
First(matching) ==
    IF matching = {} THEN 0
    ELSE CHOOSE i \in matching : \A j \in matching : i <= j

NoCap == [dev |-> 0, gen |-> 0, max_copies |-> None, oris |-> <<>>, pages |-> <<>>]

\* PrintCapabilities::fetch(device i): a snapshot of what the driver
\* reports now
Snapshot(i) ==
    [dev |-> i, gen |-> gen, max_copies |-> caps[i].max_copies,
     oris |-> caps[i].oris, pages |-> caps[i].pages]

PrintCapabilitiesFetch(i, ok) ==
    IF ok THEN Ok(Snapshot(i)) ELSE Err("PrintCapabilities::fetch failed")

--------------------------------------------------------------------------
(* Capability reporting, api.rs:211-248 *)

RECURSIVE PredefinedOrientations(_)
PredefinedOrientations(oris) ==
    IF oris = <<>> THEN <<>>
    ELSE (IF IsSome(Head(oris).pre)
          THEN <<OrientationFromPredefined(Unwrap(Head(oris).pre))>>
          ELSE <<>>) \o PredefinedOrientations(Tail(oris))

get_orientations(c) ==
    LET oriens == PredefinedOrientations(c.oris)
    IN  IF oriens = <<>> THEN None ELSE Some(oriens)

get_page_sizes(c) ==
    LET sizes == [i \in 1..Len(c.pages) |->
                    PageSize(IF IsSome(c.pages[i].name)
                             THEN Some(Sanitize(Unwrap(c.pages[i].name)))
                             ELSE None,
                             c.pages[i].w, c.pages[i].h)]
    IN  IF sizes = <<>> THEN None ELSE Some(sizes)

PrinterCapability(c) ==
    [max_copies |-> c.max_copies,
     orientations |-> get_orientations(c),
     page_sizes |-> get_page_sizes(c)]

--------------------------------------------------------------------------
(* GET /printers, GET /printers/:name, GET /settings *)

Answer(c, request, response) ==
    /\ pc[c] = "idle"
    /\ req' = [req EXCEPT ![c] = request]
    /\ resp' = [resp EXCEPT ![c] = response]
    /\ pc' = [pc EXCEPT ![c] = "done"]
    /\ UNCHANGED <<envVars, files, localVars>>

get_printers_response(enumOk) ==
    LET printers == UnwrapOrDefault(PrinterDeviceAll(enumOk))
    IN  Http200(ResponseOk([i \in 1..Len(printers) |-> printers[i]]))

GetPrinters(c) ==
    \E enumOk \in BOOLEAN :
        Answer(c, [kind |-> "printers", enumOk |-> enumOk],
               get_printers_response(enumOk))

get_printer_response(name, enumOk, fetchOk) ==
    LET printers == UnwrapOrDefault(PrinterDeviceAll(enumOk))
        i == First({k \in 1..Len(printers) : printers[k] = name})
    IN  IF i # 0
        THEN LET fetched == PrintCapabilitiesFetch(i, fetchOk)
             IN  IF fetched.ok
                 THEN Http200(ResponseOk(PrinterCapability(fetched.val)))
                 ELSE Http500
        ELSE Http200(ResponseErr(<<"No such printer">>))

GetPrinter(c) ==
    \E name \in RequestPrinterNames, enumOk \in BOOLEAN, fetchOk \in BOOLEAN :
        Answer(c, [kind |-> "printer", name |-> name, enumOk |-> enumOk],
               get_printer_response(name, enumOk, fetchOk))

\* ProjectDirs::from(..): None when no home directory can be found
get_settings_filepath(fs) == IF fs = "nodir" THEN None ELSE Some("default.json")

\* std::fs::read_to_string
ReadToString(fs) ==
    CASE fs = "valid" -> Ok("json")
      [] fs = "malformed" -> Ok("garbage")
      [] OTHER -> Err("read_to_string failed")

\* PrintSettings::parse_from_json_string
ParseFromJsonString(json) ==
    IF json = "json" THEN Ok(StoredSettings) ELSE Err("parse error")

read_settings(fs) ==
    LET json == ReadToString(fs)
    IN  IF ~json.ok THEN Err(json.err)
        ELSE LET parsed == ParseFromJsonString(json.val)
             IN  IF parsed.ok THEN Ok(parsed.val)
                 ELSE Err(<<"Failed to parse settings file: ", parsed.err>>)

\* a handler that tells the caller why there are no settings
get_default_settings_response_telling(fs) ==
    IF IsSome(get_settings_filepath(fs))
    THEN LET settings == read_settings(fs)
         IN  IF settings.ok
             THEN Http200(ResponseOk(settings.val))
             ELSE Http200(ResponseErr(IF fs = "malformed"
                                      THEN <<"Failed to parse settings file">>
                                      ELSE <<"No default settings">>))
    ELSE Http200(ResponseErr(<<"No default settings">>))

get_default_settings_response(fs) ==
    IF IsSome(get_settings_filepath(fs))
    THEN LET settings == read_settings(fs)
         IN  IF settings.ok
             THEN Http200(ResponseOk(settings.val))
             ELSE Http200(ResponseErr(<<"No default settings">>))
    ELSE Http200(ResponseErr(<<"No default settings">>))

GetDefaultSettings(c) ==
    \E fs \in FileStates :
        Answer(c, [kind |-> "settings", fs |-> fs],
               get_default_settings_response(fs))

--------------------------------------------------------------------------
(* POST /print: print_file, api.rs:250-314, one action per statement that  *)
(* calls out of the program                                                *)

NoBuilder == [dev |-> 0, opts |-> <<>>]
NoJob == [dev |-> 0, file |-> 0, ticket |-> <<>>]
NoResult == [ok |-> FALSE, err |-> "pending"]

Settings(c) == req[c].settings

PrintStart(c, payloads) ==
    /\ pc[c] = "idle"
    /\ \E p \in payloads : req' = [req EXCEPT ![c] = [kind |-> "print", settings |-> p]]
    /\ pc' = [pc EXCEPT ![c] = "lookup"]
    /\ UNCHANGED <<envVars, files, localVars, resp>>

\* a return that removes the file only after a successful print
ReturnKeepingFileOnError(c, r) ==
    /\ result' = [result EXCEPT ![c] = r]
    /\ pc' = [pc EXCEPT ![c] = "return"]
    /\ files' = IF r.ok THEN files \ {tmp[c]} ELSE files
    /\ tmp' = [tmp EXCEPT ![c] = 0]

\* print_file returns r, by `?`, bail! or its last line: `file`, if it was
\* created, goes out of scope and NamedTempFile's Drop removes it from disk
Return(c, r) ==
    /\ result' = [result EXCEPT ![c] = r]
    /\ pc' = [pc EXCEPT ![c] = "return"]
    /\ files' = files \ {tmp[c]}
    /\ tmp' = [tmp EXCEPT ![c] = 0]

\* print_file goes on to its next statement
Continue(c, next) ==
    /\ pc' = [pc EXCEPT ![c] = next]
    /\ UNCHANGED <<result, files, tmp>>

\* print_file calls out of the program; the call succeeds or fails
CallWith(c, name, arg, ok) == called' = [called EXCEPT ![c] = @ \cup {<<name, arg, ok>>}]
Call(c, name, ok) == CallWith(c, name, "", ok)

\* `?` on the Result of a failed call
Fail(c, name) == Return(c, Err(name))

\* a lookup that compares the raw device name, as get_printer does
FindPrinterUnsanitized(printers, name) ==
    First({k \in 1..Len(printers) : printers[k] = name})

\* api.rs:253-255: the device print_file resolves the name to, 0 when none
FindPrinter(printers, name) ==
    First({k \in 1..Len(printers) : Sanitize(printers[k]) = name})

\* api.rs:252-259
PrintLookup(c) ==
    /\ pc[c] = "lookup"
    /\ \E enumOk \in BOOLEAN :
        LET all == PrinterDeviceAll(enumOk)
        IN  /\ Call(c, "PrinterDevice::all", enumOk)
            /\ IF ~all.ok
               THEN Return(c, Err(all.err)) /\ UNCHANGED printer
               ELSE LET i == FindPrinter(all.val, Settings(c).printer)
                    IN  IF i = 0
                        THEN Return(c, Err("No such printer")) /\ UNCHANGED printer
                        ELSE /\ printer' = [printer EXCEPT ![c] = i]
                             /\ Continue(c, "fetch")
    /\ UNCHANGED <<envVars, req, cap, builder, job, resp>>

\* api.rs:263
PrintFetch(c) ==
    /\ pc[c] = "fetch"
    /\ \E fetchOk \in BOOLEAN :
        LET fetched == PrintCapabilitiesFetch(printer[c], fetchOk)
        IN  /\ Call(c, "PrintCapabilities::fetch", fetchOk)
            /\ IF fetched.ok
               THEN cap' = [cap EXCEPT ![c] = fetched.val] /\ Continue(c, "new")
               ELSE Return(c, Err(fetched.err)) /\ UNCHANGED cap
    /\ UNCHANGED <<envVars, req, printer, builder, job, resp>>

\* api.rs:264
PrintNewBuilder(c) ==
    /\ pc[c] = "new"
    /\ \E newOk \in BOOLEAN :
        /\ Call(c, "PrintTicketBuilder::new", newOk)
        /\ IF newOk
           THEN /\ builder' = [builder EXCEPT ![c] = [dev |-> printer[c], opts |-> <<>>]]
                /\ Continue(c, "copies")
           ELSE Fail(c, "PrintTicketBuilder::new failed") /\ UNCHANGED builder
    /\ UNCHANGED <<envVars, req, printer, cap, job, resp>>

\* builder.merge(x)?: x joins the builder's ticket, or the driver refuses it
Merge(c, feature, x, next) ==
    \E mergeOk \in BOOLEAN :
        /\ CallWith(c, "PrintTicketBuilder::merge", feature, mergeOk)
        /\ IF mergeOk
           THEN /\ builder' = [builder EXCEPT
                                 ![c].opts = Append(@, [feature |-> feature, option |-> x])]
                /\ Continue(c, next)
           ELSE Fail(c, "PrintTicketBuilder::merge failed") /\ UNCHANGED builder

Skip(c, next) == Continue(c, next) /\ UNCHANGED <<builder, called>>

\* api.rs:266-269
PrintCopies(c) ==
    /\ pc[c] = "copies"
    /\ IF IsSome(Settings(c).copies)
       THEN Merge(c, "copies", [copies |-> Unwrap(Settings(c).copies)], "orientation")
       ELSE Skip(c, "orientation")
    /\ UNCHANGED <<envVars, req, printer, cap, job, resp>>

\* a search that falls back on the first option
FindOrientationOrFirst(snapshot, ori) ==
    LET predefined == Some(PredefinedFromOrientation(ori))
        i == First({k \in 1..Len(snapshot.oris) : snapshot.oris[k].pre = predefined})
    IN  IF i = 0 /\ snapshot.oris # <<>> THEN 1 ELSE i

\* api.rs:273-276: the orientation option print_file picks, 0 when none
FindOrientation(snapshot, ori) ==
    LET predefined == Some(PredefinedFromOrientation(ori))
    IN  First({k \in 1..Len(snapshot.oris) : snapshot.oris[k].pre = predefined})

\* an option built anew from its predefined name
OrientationRebuilt(snapshot, i) == OriOpt(snapshot.oris[i].pre, 0)

\* api.rs:278-279: what is merged is the option found in the snapshot
OrientationOption(snapshot, i) == snapshot.oris[i]

\* api.rs:271-283
PrintOrientation(c) ==
    /\ pc[c] = "orientation"
    /\ IF IsSome(Settings(c).orientation)
       THEN LET i == FindOrientation(cap[c], Unwrap(Settings(c).orientation))
            IN  IF i # 0
                THEN Merge(c, "orientation", OrientationOption(cap[c], i), "page_size")
                ELSE Return(c, Err("No such orientation")) /\ UNCHANGED <<builder, called>>
       ELSE Skip(c, "page_size")
    /\ UNCHANGED <<envVars, req, printer, cap, job, resp>>

\* a search by size that also takes the sheet turned by 90 degrees
FindPageSizeEitherWay(snapshot, page_size) ==
    IF IsSome(page_size.name)
    THEN LET name == Some(Unwrap(page_size.name))
         IN  First({k \in 1..Len(snapshot.pages) : snapshot.pages[k].name = name})
    ELSE First({k \in 1..Len(snapshot.pages) :
                  \/ /\ snapshot.pages[k].w = page_size.width
                     /\ snapshot.pages[k].h = page_size.height
                  \/ /\ snapshot.pages[k].w = page_size.height
                     /\ snapshot.pages[k].h = page_size.width})

\* api.rs:287-295: the page-size option print_file picks, 0 when none
FindPageSize(snapshot, page_size) ==
    IF IsSome(page_size.name)
    THEN LET name == Some(Unwrap(page_size.name))
         IN  First({k \in 1..Len(snapshot.pages) : snapshot.pages[k].name = name})
    ELSE First({k \in 1..Len(snapshot.pages) :
                  /\ snapshot.pages[k].w = page_size.width
                  /\ snapshot.pages[k].h = page_size.height})

\* api.rs:297-298: what is merged is the option found in the snapshot
PageSizeOption(snapshot, i) == snapshot.pages[i]

\* api.rs:285-302
PrintPageSize(c) ==
    /\ pc[c] = "page_size"
    /\ IF IsSome(Settings(c).page_size)
       THEN LET i == FindPageSize(cap[c], Unwrap(Settings(c).page_size))
            IN  IF i # 0
                THEN Merge(c, "page_size", PageSizeOption(cap[c], i), "tempfile")
                ELSE Return(c, Err("No such page size")) /\ UNCHANGED <<builder, called>>
       ELSE Skip(c, "tempfile")
    /\ UNCHANGED <<envVars, req, printer, cap, job, resp>>

\* NamedTempFile::new(): a file that did not exist before, created
\* exclusively under a fresh random name
NewTempFile(c, n) ==
    /\ n \notin files
    /\ files' = files \cup {n}
    /\ tmp' = [tmp EXCEPT ![c] = n]

\* api.rs:305
PrintTempFile(c) ==
    /\ pc[c] = "tempfile"
    /\ \/ /\ Call(c, "NamedTempFile::new", TRUE)
          /\ \E n \in TmpNames : NewTempFile(c, n)
          /\ pc' = [pc EXCEPT ![c] = "write"]
          /\ UNCHANGED result
       \/ /\ Call(c, "NamedTempFile::new", FALSE)
          /\ Fail(c, "NamedTempFile::new failed")
    /\ UNCHANGED <<envVars, req, printer, cap, builder, job, resp>>

\* api.rs:306
PrintWrite(c) ==
    /\ pc[c] = "write"
    /\ \E writeOk \in BOOLEAN :
        /\ Call(c, "write_all", writeOk)
        /\ IF writeOk THEN Continue(c, "build") ELSE Fail(c, "write_all failed")
    /\ UNCHANGED <<envVars, req, printer, cap, builder, job, resp>>

\* api.rs:309: the ticket is built when print_file goes on to submit it
PrintBuild(c) ==
    /\ pc[c] = "build"
    /\ \E buildOk \in BOOLEAN :
        /\ Call(c, "PrintTicketBuilder::build", buildOk)
        /\ IF buildOk THEN Continue(c, "print")
           ELSE Fail(c, "PrintTicketBuilder::build failed")
    /\ UNCHANGED <<envVars, req, printer, cap, builder, job, resp>>

\* api.rs:310-313
PrintSubmit(c) ==
    /\ pc[c] = "print"
    /\ \E printOk \in BOOLEAN :
        /\ Call(c, "PdfiumPrinter::print", printOk)
        /\ IF printOk
           THEN /\ job' = [job EXCEPT ![c] =
                             [dev |-> printer[c], file |-> tmp[c],
                              ticket |-> builder[c].opts]]
                /\ Return(c, Ok("unit"))
           ELSE Fail(c, "PdfiumPrinter::print failed") /\ UNCHANGED job
    /\ UNCHANGED <<envVars, req, printer, cap, builder, resp>>

\* a handler that lets the error of print_file through as a fault
print_response_propagating(r) ==
    IF ~r.ok THEN Http500 ELSE Http200(ResponseOk("ok"))

\* Api::print, api.rs:199-208
print_response(r) ==
    IF ~r.ok
    THEN Http200(ResponseErr(<<"Failed to print: ", r.err>>))
    ELSE Http200(ResponseOk("ok"))

ApiPrint(c) ==
    /\ pc[c] = "return"
    /\ resp' = [resp EXCEPT ![c] = print_response(result[c])]
    /\ pc' = [pc EXCEPT ![c] = "done"]
    /\ UNCHANGED <<envVars, files, req, localVars>>

\* the answer is sent and the handler's locals are gone
Finish(c) ==
    /\ pc[c] = "done"
    /\ pc' = [pc EXCEPT ![c] = "idle"]
    /\ req' = [req EXCEPT ![c] = NoReq]
    /\ resp' = [resp EXCEPT ![c] = NoResp]
    /\ printer' = [printer EXCEPT ![c] = 0]
    /\ cap' = [cap EXCEPT ![c] = NoCap]
    /\ builder' = [builder EXCEPT ![c] = NoBuilder]
    /\ called' = [called EXCEPT ![c] = {}]
    /\ job' = [job EXCEPT ![c] = NoJob]
    /\ result' = [result EXCEPT ![c] = NoResult]
    /\ UNCHANGED <<envVars, files, tmp>>

\* the driver of one device starts to report other capabilities
DriverChange ==
    /\ gen < MaxChanges
    /\ \E i \in 1..Len(devices) :
        \E k \in CapPool \ {caps[i]} : caps' = [caps EXCEPT ![i] = k]
    /\ gen' = gen + 1
    /\ UNCHANGED <<devices, files, pc, req, localVars, resp>>

--------------------------------------------------------------------------
(* Specifications *)

Init ==
    /\ devices \in DeviceLists
    /\ caps = [i \in 1..Len(devices) |-> InitialCaps(devices[i])]
    /\ gen = 0
    /\ files = {}
    /\ pc = [c \in Clients |-> "idle"]
    /\ req = [c \in Clients |-> NoReq]
    /\ printer = [c \in Clients |-> 0]
    /\ cap = [c \in Clients |-> NoCap]
    /\ builder = [c \in Clients |-> NoBuilder]
    /\ tmp = [c \in Clients |-> 0]
    /\ called = [c \in Clients |-> {}]
    /\ job = [c \in Clients |-> NoJob]
    /\ result = [c \in Clients |-> NoResult]
    /\ resp = [c \in Clients |-> NoResp]

PrintFile(c) ==
    \/ PrintLookup(c)
    \/ PrintFetch(c)
    \/ PrintNewBuilder(c)
    \/ PrintCopies(c)
    \/ PrintOrientation(c)
    \/ PrintPageSize(c)
    \/ PrintTempFile(c)
    \/ PrintWrite(c)
    \/ PrintBuild(c)
    \/ PrintSubmit(c)

\* one request at a time, every request and every driver state
Next ==
    \/ \E c \in Clients1 :
        \/ GetPrinters(c)
        \/ GetPrinter(c)
        \/ GetDefaultSettings(c)
        \/ PrintStart(c, Payloads)
        \/ PrintFile(c)
        \/ ApiPrint(c)
        \/ Finish(c)
    \/ DriverChange

Spec == Init /\ [][Next]_vars

\* print requests served concurrently
NextConc ==
    \E c \in Clients :
        \/ PrintStart(c, ConcPayloads)
        \/ PrintFile(c)
        \/ ApiPrint(c)
        \/ Finish(c)

SpecConc == Init /\ [][NextConc]_vars

--------------------------------------------------------------------------
(* Vocabulary of the properties *)

IsPrint(c) == req[c].kind = "print"
\* print_file has returned
Returned(c) == IsPrint(c) /\ pc[c] \in {"return", "done"}
\* the request has its answer
Done(c) == pc[c] = "done"
\* print_file returned the error e
Failed(c, e) == Returned(c) /\ ~result[c].ok /\ result[c].err = e
Called(c, name) == \E ok \in BOOLEAN : <<name, "", ok>> \in called[c]
CallFailed(c, name) == <<name, "", FALSE>> \in called[c]
Merged(c, feature) == <<"PrintTicketBuilder::merge", feature, TRUE>> \in called[c]
MergeCalled(c, feature) ==
    \E ok \in BOOLEAN : <<"PrintTicketBuilder::merge", feature, ok>> \in called[c]
\* no call out of the program has failed in this request
NoFault(c) == \A x \in called[c] : x[3]
\* the snapshot print_file holds is what the driver reports now
SnapshotCurrent(c) == cap[c].dev # 0 => cap[c].gen = gen
\* the options of one feature in the builder's ticket
TicketOptions(c, feature) ==
    {builder[c].opts[k].option :
        k \in {j \in 1..Len(builder[c].opts) : builder[c].opts[j].feature = feature}}
NegotiationErrors == {"No such printer", "No such orientation", "No such page size"}

\* the body of GET /printers and of GET /printers/{name}, were they asked now
ListedNames == Unwrap(Unwrap(get_printers_response(TRUE).body).data)
Reported(name) == Unwrap(get_printer_response(name, TRUE, TRUE).body)

--------------------------------------------------------------------------
(* C1: round trip.  A print request that names a listed printer and asks   *)
(* for an orientation and a page size exactly as that printer's capability *)
(* report gives them is not refused with "No such printer", "No such       *)
(* orientation" or "No such page size".                                    *)

AsksReportedBack(c) ==
    LET s == Settings(c)
    IN  /\ s.printer \in Range(ListedNames)
        /\ Reported(s.printer).code = 0
        /\ LET report == Unwrap(Reported(s.printer).data)
           IN  /\ IsSome(s.orientation) =>
                    /\ IsSome(report.orientations)
                    /\ Unwrap(s.orientation) \in Range(Unwrap(report.orientations))
               /\ IsSome(s.page_size) =>
                    /\ IsSome(report.page_sizes)
                    /\ Unwrap(s.page_size) \in Range(Unwrap(report.page_sizes))

\* C1: a request that asks back what was listed and reported is not refused
\* with one of the three negotiation errors
RoundTripAccepted ==
    \A c \in Clients :
        (Returned(c) /\ SnapshotCurrent(c) /\ AsksReportedBack(c))
            => (result[c].ok \/ result[c].err \notin NegotiationErrors)

--------------------------------------------------------------------------
(* C2: a request whose printer resolves and whose orientation is the       *)
(* predefined identity of no orientation option of the snapshot fetched    *)
(* for it ends with "No such orientation": no orientation option is        *)
(* merged, the ticket is not built, nothing is submitted, and the client   *)
(* gets an envelope with code 1.                                           *)

OrientationAbsent(c) ==
    /\ Returned(c)
    /\ printer[c] # 0
    /\ cap[c].dev # 0
    /\ IsSome(Settings(c).orientation)
    /\ \A i \in 1..Len(cap[c].oris) :
        cap[c].oris[i].pre # Some(PredefinedFromOrientation(Unwrap(Settings(c).orientation)))

NothingOfOrientationDone(c) ==
    /\ ~result[c].ok
    /\ TicketOptions(c, "orientation") = {}
    /\ ~MergeCalled(c, "orientation")
    /\ ~Called(c, "PrintTicketBuilder::build")
    /\ ~Called(c, "PdfiumPrinter::print")
    /\ job[c] = NoJob
    /\ Done(c) =>
        /\ resp[c].status = 200
        /\ Unwrap(resp[c].body).code = 1

\* C2 as stated: an absent orientation always ends with "No such
\* orientation", nothing merged, built or submitted
AbsentOrientationEndsNoSuchOrientation ==
    \A c \in Clients :
        OrientationAbsent(c) =>
            Failed(c, "No such orientation") /\ NothingOfOrientationDone(c)

\* the orientation step is reached: the builder was created and the copies,
\* if any were asked for, were merged
OrientationStepReached(c) ==
    /\ builder[c].dev # 0
    /\ IsSome(Settings(c).copies) => Merged(c, "copies")

\* C2 amended: the error is "No such orientation" unless the creation of
\* the ticket builder or the merge of the copies failed first, and then it
\* is that failure; in every case nothing of the orientation is done
AbsentOrientationNeverSubstituted ==
    \A c \in Clients :
        OrientationAbsent(c) =>
            /\ NothingOfOrientationDone(c)
            /\ OrientationStepReached(c) => Failed(c, "No such orientation")
            /\ ~OrientationStepReached(c) =>
                /\ result[c].err \in {"PrintTicketBuilder::new failed",
                                      "PrintTicketBuilder::merge failed"}
                /\ \/ CallFailed(c, "PrintTicketBuilder::new")
                   \/ <<"PrintTicketBuilder::merge", "copies", FALSE>> \in called[c]

\* C2 witness: a supported printer refuses an orientation it does not list
AbsentOrientationRefused ==
    \E c \in Clients :
        /\ Done(c)
        /\ OrientationAbsent(c)
        /\ cap[c].oris # <<>>
        /\ Failed(c, "No such orientation")
        /\ Unwrap(resp[c].body).code = 1

--------------------------------------------------------------------------
(* C3: when the page size of a request carries a name and the negotiation  *)
(* comes to select the page size, a name that equals none of the names the *)
(* capability report gives for the printer ends the request with "No such  *)
(* page size", whatever its width and height.                              *)

\* the page-size step is reached: the builder was created and the copies
\* and the orientation, if asked for, were merged
PageSizeStepReached(c) ==
    /\ Returned(c)
    /\ OrientationStepReached(c)
    /\ IsSome(Settings(c).orientation) => Merged(c, "orientation")

\* the page-size names GET /printers/{name} gives for the snapshot
ReportedPageNames(snapshot) ==
    IF IsSome(get_page_sizes(snapshot))
    THEN {ps.name : ps \in Range(Unwrap(get_page_sizes(snapshot)))}
    ELSE {}

\* C3: a page-size name that the capability report does not give ends the
\* request with "No such page size"
UnreportedNameEndsNoSuchPageSize ==
    \A c \in Clients :
        (/\ PageSizeStepReached(c)
         /\ IsSome(Settings(c).page_size)
         /\ IsSome(Unwrap(Settings(c).page_size).name)
         /\ Unwrap(Settings(c).page_size).name \notin ReportedPageNames(cap[c]))
            => Failed(c, "No such page size")

--------------------------------------------------------------------------
(* C4: when the page size of a request carries no name, a page-size option *)
(* of the snapshot is selected if and only if its width and its height     *)
(* equal the requested ones, and a request that differs from every listed  *)
(* size, be it by one micrometer, ends with "No such page size".           *)

Nameless(c) ==
    /\ Returned(c)
    /\ cap[c].dev # 0
    /\ IsSome(Settings(c).page_size)
    /\ ~IsSome(Unwrap(Settings(c).page_size).name)

SameSize(c, x) ==
    /\ x.w = Unwrap(Settings(c).page_size).width
    /\ x.h = Unwrap(Settings(c).page_size).height

\* C4 as stated, for the requests in which no call out of the program
\* fails: the options of the requested size, and only they, are selected,
\* and a size that is not listed ends with "No such page size"
SameSizeSelectedElseNoSuchPageSize ==
    \A c \in Clients :
        (Nameless(c) /\ NoFault(c)) =>
            /\ \A x \in Range(cap[c].pages) :
                x \in TicketOptions(c, "page_size") <=> SameSize(c, x)
            /\ (\A x \in Range(cap[c].pages) : ~SameSize(c, x))
                => Failed(c, "No such page size")

\* C4 amended: once the negotiation has come to the page-size step, the
\* option selected is the first of the snapshot whose width and height both
\* equal the requested ones, and with no such option the request ends with
\* "No such page size"; no option of another size is ever selected
FirstSameSizeSelectedElseNoSuchPageSize ==
    \A c \in Clients :
        Nameless(c) =>
            /\ \A x \in TicketOptions(c, "page_size") : SameSize(c, x)
            /\ PageSizeStepReached(c) =>
                IF \E i \in 1..Len(cap[c].pages) : SameSize(c, cap[c].pages[i])
                THEN LET first == CHOOSE i \in 1..Len(cap[c].pages) :
                                    /\ SameSize(c, cap[c].pages[i])
                                    /\ \A j \in 1..(i - 1) : ~SameSize(c, cap[c].pages[j])
                     IN  /\ MergeCalled(c, "page_size")
                         /\ ~Failed(c, "No such page size")
                         /\ Merged(c, "page_size") =>
                                TicketOptions(c, "page_size") = {cap[c].pages[first]}
                ELSE /\ Failed(c, "No such page size")
                     /\ ~MergeCalled(c, "page_size")

\* C4 witness: a size one micrometer wider than a listed one is refused
OneMicrometerOffRefused ==
    \E c \in Clients :
        /\ Nameless(c)
        /\ PageSizeStepReached(c)
        /\ \E x \in Range(cap[c].pages) :
            /\ x.w + 1 = Unwrap(Settings(c).page_size).width
            /\ x.h = Unwrap(Settings(c).page_size).height
        /\ Failed(c, "No such page size")

--------------------------------------------------------------------------
(* C5: a print request whose printer name matches no device of the fresh   *)
(* enumeration ends with a code 1 envelope carrying "No such printer", and *)
(* print_file has then made no call but the enumeration: no capability     *)
(* fetch, no ticket builder, no temporary file, no submission.             *)

\* the enumeration succeeded and the name (sanitation applied to the
\* device's, as print_file compares) is that of no device
MatchesNoDevice(c) ==
    /\ IsPrint(c)
    /\ <<"PrinterDevice::all", "", TRUE>> \in called[c]
    /\ \A i \in 1..Len(devices) : Sanitize(devices[i]) # Settings(c).printer

\* C5: an unmatched printer name ends with "No such printer" after the
\* enumeration alone
NoSuchPrinterBeforeAnyFetch ==
    \A c \in Clients :
        MatchesNoDevice(c) =>
            /\ Failed(c, "No such printer")
            /\ called[c] = {<<"PrinterDevice::all", "", TRUE>>}
            /\ printer[c] = 0 /\ cap[c] = NoCap /\ builder[c] = NoBuilder
            /\ tmp[c] = 0 /\ job[c] = NoJob
            /\ Done(c) =>
                resp[c] = Http200(ResponseErr(<<"Failed to print: ", "No such printer">>))

\* C5 witness: printers exist, none matches, and the request asked for more
UnknownPrinterAnswered ==
    \E c \in Clients :
        /\ Done(c)
        /\ MatchesNoDevice(c)
        /\ devices # <<>>
        /\ IsSome(Settings(c).orientation)
        /\ Unwrap(resp[c].body).code = 1

--------------------------------------------------------------------------
(* C6: in every operation that enumerates the devices, a failure of the OS *)
(* enumeration call is taken for an empty device list: the answer is the   *)
(* one given when no printers exist, an empty list or "No such printer".   *)

\* C6: a failed enumeration is answered as an empty device list is
EnumerationFailureIsNoPrinters ==
    \A c \in Clients :
        Done(c) =>
            /\ (req[c].kind = "printers" /\ ~req[c].enumOk)
                => resp[c] = Http200(ResponseOk(<<>>))
            /\ (req[c].kind = "printer" /\ ~req[c].enumOk)
                => resp[c] = Http200(ResponseErr(<<"No such printer">>))
            /\ (IsPrint(c) /\ CallFailed(c, "PrinterDevice::all"))
                => /\ Failed(c, "No such printer")
                   /\ resp[c] = Http200(ResponseErr(<<"Failed to print: ", "No such printer">>))

--------------------------------------------------------------------------
(* C7: GET /settings answers with the same code 1 envelope, "No default    *)
(* settings" and no data, whether the settings file is absent, unreadable  *)
(* or unparsable, or no config path resolves; it answers with code 0 only  *)
(* when the file was read and parsed, and then with the parsed settings.   *)

\* C7: one answer for every way of having no default settings
NoDefaultSettingsUniform ==
    \A c \in Clients :
        (Done(c) /\ req[c].kind = "settings") =>
            /\ req[c].fs # "valid" =>
                resp[c] = [status |-> 200,
                           body |-> Some([code |-> 1,
                                          msg |-> Some(<<"No default settings">>),
                                          data |-> None])]
            /\ req[c].fs = "valid" =>
                resp[c] = [status |-> 200,
                           body |-> Some([code |-> 0, msg |-> None,
                                          data |-> Some(StoredSettings)])]

\* C7 witness: an unparsable settings file was asked for
MalformedSettingsAnswered ==
    \E c \in Clients :
        /\ Done(c)
        /\ req[c].kind = "settings"
        /\ req[c].fs = "malformed"
        /\ Unwrap(resp[c].body).code = 1

--------------------------------------------------------------------------
(* C8: a temporary print file exists only while the print_file that        *)
(* created it is between its creation and its return; once print_file has  *)
(* returned, on any path, the file is gone, and no two requests ever hold  *)
(* the same file.                                                          *)

\* C8: temporary files live from their creation to the return of their
\* print_file, each with one owner
TempFilesScoped ==
    /\ \A c \in Clients :
        /\ tmp[c] # 0 => (tmp[c] \in files /\ pc[c] \in {"write", "build", "print"})
        /\ pc[c] \in {"write", "build", "print"} => tmp[c] # 0
    /\ \A n \in files : \E c \in Clients : tmp[c] = n
    /\ \A c, d \in Clients : (c # d /\ tmp[c] # 0) => tmp[c] # tmp[d]
    /\ (\A c \in Clients : pc[c] \in {"idle", "return", "done"}) => files = {}

\* C8 witness: one request has returned after a failed submission and its file is gone
\* while another request still holds its own
TempFileGoneAfterFailure ==
    \E c, d \in Clients :
        /\ Returned(c)
        /\ <<"NamedTempFile::new", "", TRUE>> \in called[c]
        /\ CallFailed(c, "PdfiumPrinter::print")
        /\ tmp[c] = 0
        /\ tmp[d] # 0
        /\ files = {tmp[d]}

--------------------------------------------------------------------------
(* C9: every POST /print is answered with the envelope and never with a    *)
(* fault: {code 0, data "ok", no msg} exactly when print_file succeeded    *)
(* (ticket built, submission accepted), {code 1, msg, no data} for every   *)
(* failure.                                                                *)

\* C9: the answer to POST /print is the success envelope exactly on
\* success and the error envelope otherwise
PrintAlwaysEnveloped ==
    \A c \in Clients :
        (Done(c) /\ IsPrint(c)) =>
            /\ resp[c].status = 200
            /\ IsSome(resp[c].body)
            /\ LET e == Unwrap(resp[c].body)
                   succeeded == /\ <<"PrintTicketBuilder::build", "", TRUE>> \in called[c]
                                /\ <<"PdfiumPrinter::print", "", TRUE>> \in called[c]
               IN  /\ result[c].ok <=> succeeded
                   /\ succeeded <=> NoFault(c) /\ job[c] # NoJob
                   /\ succeeded => e = [code |-> 0, msg |-> None, data |-> Some("ok")]
                   /\ ~succeeded =>
                        /\ e.code = 1
                        /\ e.data = None
                        /\ e.msg = Some(<<"Failed to print: ", result[c].err>>)

\* C9 witness: the driver refused to build the ticket
FailedBuildAnswered ==
    \E c \in Clients :
        /\ Done(c)
        /\ IsPrint(c)
        /\ CallFailed(c, "PrintTicketBuilder::build")
        /\ Unwrap(resp[c].body).code = 1

--------------------------------------------------------------------------
(* C10: every feature option in the ticket builder is an option of the     *)
(* snapshot fetched in this request for the device the request resolved    *)
(* to, the snapshot's own object; a submitted ticket holds only such       *)
(* options.                                                                *)

==========================================================================
